---- MODULE Spec2Model ----
(***************************************************************************)
(* Model of update_solar_production and fetch_cloud_cover of               *)
(* solar_prod_planner_cloud_cover.py: one run of the journey simulator,    *)
(* one step per segment prelude and per sample of the inner loop.          *)
(*                                                                         *)
(* Units (fixed point, the code uses floats):                              *)
(*   time          seconds since 00:00 of day 0 (UTC)                      *)
(*   lat, lon      thousandths of a degree                                 *)
(*   distance      metres                                                  *)
(*   cloud factor  hundredths (CLOUD_AMT / 100, so CLOUD_AMT itself)       *)
(*   attenuation   hundredths (100 is "1")                                 *)
(*   kw_per_m2     tenths of a kW                                          *)
(*   irradiance    hundredths (sine of the elevation)                      *)
(*   energy        power unit x minutes (the code's 10/60 h is 10 min)     *)
(***************************************************************************)
EXTENDS Integers, Sequences, FiniteSets, TLC

VARIABLES
    geojson,            \* input: the drawn route as delivered by the edit control
    surface_area,       \* input
    kw_per_m2,          \* input
    start_date,         \* input: [day, hour, minute], the "%Y-%m-%d %H:%M" text
    vessel_speed,       \* input: km/h
    cloud_toggle,       \* input: the checklist value, a set of strings
    pc,                 \* position of the run
    route_positions,    \* (lat, lon) pairs
    i,                  \* outer loop index (0-based)
    j,                  \* inner loop index (0-based)
    current_time,
    num_steps,
    lats, lons,         \* linspace results of the current segment
    times_segment,
    segment_start,      \* current_time when the current segment began
    segment_duration,   \* seconds, of the current segment
    cloud_cover_cache,  \* date -> cloud factor
    apply_cloud,
    times,
    production_values,
    total_production,
    calls,              \* history: the provider requests made, in order
    responses,          \* history: what requests.get came back with, per request
    lookups,            \* history: the samples whose date_key was computed (line 111)
    samples             \* history: the samples evaluated (lines 114-123)

inputs == <<geojson, surface_area, kw_per_m2, start_date, vessel_speed, cloud_toggle>>
locals == <<route_positions, i, j, current_time, num_steps, lats, lons,
            times_segment, segment_start, segment_duration, cloud_cover_cache,
            apply_cloud>>
outputs == <<times, production_values, total_production>>
history == <<calls, responses, lookups, samples>>
vars == <<inputs, pc, locals, outputs, history>>

----------------------------------------------------------------------------
(* Bounds and input domains *)

MaxWaypoints == 3

StepSeconds == 600
StepMinutes == 10
SecondsPerDay == 86400
MetresPerMilliDegree == 111
FullAttenuation == 100

\* (lon, lat) pairs as the drawing surface delivers them, near 90 E, where the
\* UTC date changes at local sunrise.
Coordinates == { <<90000, 0>>, <<90020, 10>>, <<90200, 0>> }

StartDates == { [day |-> 0, hour |-> 23, minute |-> 50],
                [day |-> 0, hour |-> 17, minute |-> 30],
                [day |-> 0, hour |-> 5,  minute |-> 50] }

Speeds == {10, 20}

\* CLOUD_AMT values a payload may carry (percent); -999 is the provider's fill value.
CloudAmts == {-999, 0, 40, 100, 150}

\* What requests.get can come back with for one request.
Responses ==
    { [kind |-> "network_error", status |-> 0, body |-> "none", amt |-> 0] }
    \cup { [kind |-> "response", status |-> 500, body |-> "none", amt |-> 0] }
    \cup { [kind |-> "response", status |-> 200, body |-> b, amt |-> 0] :
              b \in {"not_json", "no_parameter", "no_date_field"} }
    \cup { [kind |-> "response", status |-> 200, body |-> "ok", amt |-> a] :
              a \in CloudAmts }

RECURSIVE SeqsUpTo(_, _)
SeqsUpTo(S, n) ==
    IF n = 0 THEN { <<>> }
    ELSE SeqsUpTo(S, n - 1)
         \cup { Append(s, x) : s \in { t \in SeqsUpTo(S, n - 1) : Len(t) = n - 1 }, x \in S }

Geojsons ==
    { [present |-> FALSE, has_features |-> FALSE, features |-> <<>>],
      [present |-> TRUE,  has_features |-> FALSE, features |-> <<>>],
      [present |-> TRUE,  has_features |-> TRUE,  features |-> <<>>] }
    \cup { [present |-> TRUE, has_features |-> TRUE, features |-> << c >>] :
              c \in SeqsUpTo(Coordinates, MaxWaypoints) }

----------------------------------------------------------------------------
(* Pure helpers *)

Abs(x) == IF x < 0 THEN -x ELSE x
Max(a, b) == IF a > b THEN a ELSE b

RECURSIVE Sum(_)
Sum(s) == IF s = <<>> THEN 0 ELSE Head(s) + Sum(Tail(s))

\* datetime.strptime(start_date, "%Y-%m-%d %H:%M")
strptime(d) == d.day * SecondsPerDay + d.hour * 3600 + d.minute * 60

\* t.strftime("%Y-%m-%d"): the calendar date of a timestamp
strftime_date(t) == t \div SecondsPerDay

\* geodesic(start, end).km, here in metres: zero exactly for identical points
geodesic(p, q) == MetresPerMilliDegree * (Abs(p[1] - q[1]) + Abs(p[2] - q[2]))

\* timedelta(hours = segment_distance / vessel_speed).total_seconds()
duration_seconds(metres, speed) == (metres * 36) \div (speed * 10)

\* max(2, int(seconds / 600))
NumSteps(seconds) == Max(2, seconds \div StepSeconds)

\* np.linspace(a, b, n)
linspace(a, b, n) == [k \in 1..n |-> a + ((k - 1) * (b - a)) \div (n - 1)]

\* [current_time + timedelta(minutes=10 * j) for j in range(num_steps)]
TimesSegment(t, n) == [k \in 1..n |-> t + (k - 1) * StepSeconds]

\* get_solarposition(...)["apparent_elevation"], degrees: a coarse ephemeris,
\* deterministic in (time, lat, lon), negative at night
get_solarposition(t, lat, lon) ==
    LET local_minutes == ((t \div 60) + (lon * 4) \div 1000) % 1440
    IN  90 - Abs(lat) \div 1000 - Abs(local_minutes - 720) \div 4

\* np.sin(np.radians(x)) in hundredths, for 0 < x <= 90
irradiance(x) == (400 * x * (180 - x)) \div (40500 - x * (180 - x))

Daylight_NotStrict(solar_altitude) == solar_altitude >= 0

\* the test of line 118
Daylight(solar_altitude) == solar_altitude > 0

\* line 120
SegmentProduction(area, kw, irr, att) == area * kw * irr * att

StepEnergy_Hourly(p) == p * 60

\* line 123: segment_production * (10 / 60)
StepEnergy(p) == p * StepMinutes

InCache_Never(date_key, cache) == FALSE

\* line 112: date_key in cloud_cover_cache
InCache(date_key, cache) == date_key \in DOMAIN cache

FetchArgs_SegmentStart(ls, lo, k, date_key) ==
    [lat |-> ls[1], lon |-> lo[1], date |-> date_key]

\* the arguments of the provider call of line 113
FetchArgs(ls, lo, k, date_key) == [lat |-> ls[k], lon |-> lo[k], date |-> date_key]

\* line 114
Attenuation(cache, date_key, apply) ==
    IF apply THEN FullAttenuation - cache[date_key] ELSE FullAttenuation

\* fetch_cloud_cover: requests.get raises outside the try block
FetchRaises(resp) == resp.kind = "network_error"

\* fetch_cloud_cover: the value returned when requests.get returned
fetch_cloud_cover(resp) ==
    IF resp.status = 200
    THEN IF resp.body = "ok" THEN resp.amt         \* cloud_cover / 100
         ELSE IF resp.body = "no_date_field" THEN 0 \* .get(formatted_date, 0) / 100
         ELSE 0                                     \* unexpected structure, bad JSON
    ELSE 0

----------------------------------------------------------------------------
(* The run *)

Init ==
    /\ geojson \in Geojsons
    /\ surface_area = 10
    /\ kw_per_m2 = 2
    /\ start_date \in StartDates
    /\ vessel_speed \in Speeds
    /\ cloud_toggle \in { {}, {"on"} }
    /\ pc = "call"
    /\ route_positions = <<>>
    /\ i = 0 /\ j = 0
    /\ current_time = 0
    /\ num_steps = 0
    /\ lats = <<>> /\ lons = <<>>
    /\ times_segment = <<>>
    /\ segment_start = 0
    /\ segment_duration = 0
    /\ cloud_cover_cache = <<>>
    /\ apply_cloud = FALSE
    /\ times = <<>>
    /\ production_values = <<>>
    /\ total_production = 0
    /\ calls = <<>>
    /\ responses = <<>>
    /\ lookups = <<>>
    /\ samples = <<>>

\* line 87
RouteRejected(g) == ~g.present \/ ~g.has_features \/ g.features = <<>>

\* lines 87-88
Reject ==
    /\ pc = "call"
    /\ RouteRejected(geojson)
    /\ pc' = "invalid"
    /\ UNCHANGED <<inputs, locals, outputs, history>>

\* lines 90-97
Begin ==
    /\ pc = "call"
    /\ ~RouteRejected(geojson)
    /\ LET coordinates == geojson.features[1]
       IN  route_positions' = [k \in 1..Len(coordinates) |->
                                  <<coordinates[k][2], coordinates[k][1]>>]
    /\ total_production' = 0
    /\ times' = <<>>
    /\ production_values' = <<>>
    /\ current_time' = strptime(start_date)
    /\ cloud_cover_cache' = <<>>
    /\ apply_cloud' = ("on" \in cloud_toggle)
    /\ i' = 0
    /\ pc' = "segment"
    /\ UNCHANGED <<inputs, j, num_steps, lats, lons, times_segment, segment_start,
                   segment_duration, history>>

\* lines 99-108
Segment ==
    /\ pc = "segment"
    /\ i < Len(route_positions) - 1
    /\ LET start == route_positions[i + 1]
           end == route_positions[i + 2]
           d == duration_seconds(geodesic(start, end), vessel_speed)
           n == NumSteps(d)
       IN  /\ segment_duration' = d
           /\ num_steps' = n
           /\ lats' = linspace(start[1], end[1], n)
           /\ lons' = linspace(start[2], end[2], n)
           /\ times_segment' = TimesSegment(current_time, n)
           /\ segment_start' = current_time
           /\ current_time' = current_time + d
    /\ j' = 0
    /\ pc' = "sample"
    /\ UNCHANGED <<inputs, route_positions, i, cloud_cover_cache, apply_cloud,
                   outputs, history>>

\* lines 114-123 and the loop increments, with the cache as it is after line 113
Evaluate(cache) ==
    LET t == times_segment[j + 1]
        lat == lats[j + 1]
        lon == lons[j + 1]
        date_key == strftime_date(t)
        attenuation == Attenuation(cache, date_key, apply_cloud)
        solar_altitude == get_solarposition(t, lat, lon)
        kept == Daylight(solar_altitude)
        segment_production ==
            SegmentProduction(surface_area, kw_per_m2, irradiance(solar_altitude),
                              attenuation)
    IN  /\ cloud_cover_cache' = cache
        /\ samples' = Append(samples,
               [time |-> t, lat |-> lat, lon |-> lon, date |-> date_key,
                segment |-> i, index |-> j, attenuation |-> attenuation,
                factor |-> cache[date_key], elevation |-> solar_altitude,
                kept |-> kept, power |-> IF kept THEN segment_production ELSE 0])
        /\ IF kept
           THEN /\ times' = Append(times, t)
                /\ production_values' = Append(production_values, segment_production)
                /\ total_production' = total_production + StepEnergy(segment_production)
           ELSE UNCHANGED outputs
        /\ IF j + 1 < num_steps
           THEN /\ j' = j + 1
                /\ UNCHANGED <<i, pc>>
           ELSE /\ j' = 0
                /\ i' = i + 1
                /\ pc' = "segment"
        /\ UNCHANGED <<inputs, route_positions, current_time, num_steps, lats, lons,
                       times_segment, segment_start, segment_duration, apply_cloud>>

Lookup(fetched) ==
    [time |-> times_segment[j + 1], lat |-> lats[j + 1], lon |-> lons[j + 1],
     date |-> strftime_date(times_segment[j + 1]), segment |-> i, index |-> j,
     fetched |-> fetched]

\* lines 110-123 for a date already in the cache
SampleCached ==
    /\ pc = "sample"
    /\ InCache(strftime_date(times_segment[j + 1]), cloud_cover_cache)
    /\ lookups' = Append(lookups, Lookup(FALSE))
    /\ UNCHANGED <<calls, responses>>
    /\ Evaluate(cloud_cover_cache)

\* lines 110-123 for a date not in the cache, the provider answering
SampleFetched ==
    /\ pc = "sample"
    /\ ~InCache(strftime_date(times_segment[j + 1]), cloud_cover_cache)
    /\ \E resp \in Responses :
          /\ ~FetchRaises(resp)
          /\ LET date_key == strftime_date(times_segment[j + 1])
             IN  /\ calls' = Append(calls, FetchArgs(lats, lons, j + 1, date_key))
                 /\ responses' = Append(responses, resp)
                 /\ lookups' = Append(lookups, Lookup(TRUE))
                 /\ Evaluate([d \in DOMAIN cloud_cover_cache \cup {date_key} |->
                                 IF d = date_key THEN fetch_cloud_cover(resp)
                                 ELSE cloud_cover_cache[d]])

\* lines 110-113 for a date not in the cache, requests.get raising: the exception
\* leaves fetch_cloud_cover and update_solar_production
SampleFetchRaised ==
    /\ pc = "sample"
    /\ ~InCache(strftime_date(times_segment[j + 1]), cloud_cover_cache)
    /\ \E resp \in Responses :
          /\ FetchRaises(resp)
          /\ calls' = Append(calls,
                 FetchArgs(lats, lons, j + 1, strftime_date(times_segment[j + 1])))
          /\ responses' = Append(responses, resp)
          /\ lookups' = Append(lookups, Lookup(TRUE))
    /\ pc' = "raised"
    /\ UNCHANGED <<inputs, locals, outputs, samples>>

\* lines 125-130
Return ==
    /\ pc = "segment"
    /\ i >= Len(route_positions) - 1
    /\ pc' = "done"
    /\ UNCHANGED <<inputs, locals, outputs, history>>

Next ==
    \/ Reject
    \/ Begin
    \/ Segment
    \/ SampleCached
    \/ SampleFetched
    \/ SampleFetchRaised
    \/ Return

Spec == Init /\ [][Next]_vars

----------------------------------------------------------------------------
(* Vocabulary of the properties, read off the inputs and the histories *)

Enabled == "on" \in cloud_toggle

DateOf(t) == t \div SecondsPerDay

Waypoints == IF RouteRejected(geojson) THEN <<>> ELSE geojson.features[1]

SegmentCount == IF Len(Waypoints) < 2 THEN 0 ELSE Len(Waypoints) - 1

\* d_k, seconds
ExpectedDuration(k) ==
    duration_seconds(geodesic(Waypoints[k], Waypoints[k + 1]), vessel_speed)

\* n_k
ExpectedCount(k) ==
    IF ExpectedDuration(k) \div 600 > 2 THEN ExpectedDuration(k) \div 600 ELSE 2

\* T_k
RECURSIVE ExpectedStart(_)
ExpectedStart(k) ==
    IF k = 1 THEN strptime(start_date)
    ELSE ExpectedStart(k - 1) + ExpectedDuration(k - 1)

\* the samples of segments k.. in processing order
RECURSIVE ScheduleFrom(_)
ScheduleFrom(k) ==
    IF k > SegmentCount THEN <<>>
    ELSE [m \in 1..ExpectedCount(k) |->
             [segment |-> k - 1, index |-> m - 1,
              time |-> ExpectedStart(k) + (m - 1) * 600]]
         \o ScheduleFrom(k + 1)

Processed ==
    [k \in 1..Len(lookups) |->
        [segment |-> lookups[k].segment, index |-> lookups[k].index,
         time |-> lookups[k].time]]

IsPrefix(s, t) == Len(s) <= Len(t) /\ s = SubSeq(t, 1, Len(s))

KeptSamples == SelectSeq(samples, LAMBDA s : s.kept)

DegenerateRoute ==
    /\ ~RouteRejected(geojson)
    /\ Len(Waypoints) = 2
    /\ Waypoints[1] = Waypoints[2]

\* the route inputs the route contract calls invalid
InvalidRoute ==
    \/ ~geojson.present
    \/ ~geojson.has_features
    \/ geojson.features = <<>>
    \/ Len(geojson.features[1]) < 2

ProviderFailed(resp) ==
    \/ resp.kind = "network_error"
    \/ resp.status # 200
    \/ resp.body # "ok"

----------------------------------------------------------------------------
(* C1: with the cloud-attenuation flag disabled, a run makes no call to the *)
(* cloud-cover provider: the number of provider calls is 0 throughout and   *)
(* at the end of the run.                                                   *)
C1_NoProviderCallWhenDisabled == ~Enabled => Len(calls) = 0

(* C2: the output series is ordered by increasing timestamp: every pair of  *)
(* consecutive recorded entries has the later timestamp in the later entry, *)
(* within a segment and across segment boundaries.                          *)
C2_SeriesIncreasing ==
    \A k \in 1..(Len(times) - 1) : times[k] < times[k + 1]

(* C3: a route input with fewer than 2 waypoints or missing/empty geometry  *)
(* is rejected: the run never returns a computed total, evaluates no sample *)
(* and makes no provider call.                                              *)
C3_InvalidRouteRejected ==
    InvalidRoute => /\ pc # "done"
                    /\ lookups = <<>>
                    /\ calls = <<>>

(* C4: within a run the provider is queried at most once per calendar date, *)
(* the number of provider calls never exceeds the number of distinct dates  *)
(* among the sample timestamps processed so far, and a cache entry once     *)
(* created is never overwritten.                                            *)
C4_AtMostOncePerDate ==
    /\ \A k1, k2 \in 1..Len(calls) : calls[k1].date = calls[k2].date => k1 = k2
    /\ Len(calls) <= Cardinality({ DateOf(lookups[k].time) : k \in 1..Len(lookups) })

C4_NoOverwrite ==
    \A d \in DOMAIN cloud_cover_cache :
        /\ d \in DOMAIN cloud_cover_cache'
        /\ cloud_cover_cache'[d] = cloud_cover_cache[d]

C4_OncePerDate == []C4_AtMostOncePerDate /\ [][C4_NoOverwrite]_vars

C4_Witness ==
    /\ pc = "done"
    /\ Len(calls) = 2
    /\ \E a, b \in 1..Len(lookups) :
          /\ a < b
          /\ lookups[a].date = lookups[b].date
          /\ lookups[a].fetched /\ ~lookups[b].fetched

(* C5: with cloud attenuation enabled, any provider failure for a date is   *)
(* absorbed: the provider call does not raise, every sample of that date    *)
(* uses attenuation = 1, and the run goes on to return a total.             *)
C5_ProviderFailureAbsorbed ==
    Enabled =>
        /\ pc # "raised"
        /\ \A k \in 1..Len(responses) :
              ProviderFailed(responses[k]) =>
                  \A n \in 1..Len(samples) :
                      samples[n].date = calls[k].date => samples[n].attenuation = 100

(* C6: for every sample evaluated, 0 <= attenuation <= 1 whatever CLOUD_AMT *)
(* the payload carries, and attenuation = 1 for every sample when the flag  *)
(* is disabled.                                                             *)
C6_AttenuationInRange ==
    \A n \in 1..Len(samples) :
        /\ 0 <= samples[n].attenuation
        /\ samples[n].attenuation <= 100
        /\ ~Enabled => samples[n].attenuation = 100

(* C7: a sample is recorded in the series if and only if its elevation is   *)
(* strictly greater than 0; samples with elevation <= 0 never appear in the *)
(* series nor add to the total; when every sample has elevation <= 0 the    *)
(* series is empty and the total is exactly 0.                              *)
C7_RecordedIffAboveHorizon ==
    /\ \A n \in 1..Len(samples) : samples[n].kept <=> samples[n].elevation > 0
    /\ times = [k \in 1..Len(KeptSamples) |-> KeptSamples[k].time]
    /\ production_values = [k \in 1..Len(KeptSamples) |-> KeptSamples[k].power]
    /\ (\A n \in 1..Len(samples) : samples[n].elevation <= 0) =>
           /\ times = <<>>
           /\ production_values = <<>>
           /\ total_production = 0

C7_Witness ==
    /\ pc = "done"
    /\ \E a, b, c \in 1..Len(samples) :
          /\ samples[a].elevation > 0 /\ samples[a].kept
          /\ samples[b].elevation = 0 /\ ~samples[b].kept
          /\ samples[c].elevation < 0 /\ ~samples[c].kept
    /\ Len(times) < Len(samples)

(* C8: after every processed sample and at return, the total energy is the  *)
(* sum over the recorded samples of power x 10 minutes, each recorded       *)
(* sample counted once whatever the gap to its neighbours, and the recorded *)
(* timestamps and power values have the same length.                        *)
C8_EnergyAccounting ==
    /\ total_production = 10 * Sum(production_values)
    /\ Len(times) = Len(production_values)
    /\ Len(production_values) = Len(KeptSamples)

C8_Witness ==
    /\ pc = "done"
    /\ Len(times) >= 3
    /\ total_production > 0
    /\ \E k \in 1..(Len(times) - 1) : times[k + 1] - times[k] # 600

(* C9: first-seen-date-wins: with cloud attenuation enabled, the provider   *)
(* is called for a date with the coordinates of the first sample of that    *)
(* date in processing order, kept or dropped, and every sample of the date  *)
(* uses the factor obtained from that call.                                 *)
C9_FirstSeenDateWins ==
    Enabled =>
        /\ \A k \in 1..Len(calls) :
              \E a \in 1..Len(lookups) :
                  /\ DateOf(lookups[a].time) = calls[k].date
                  /\ \A b \in 1..(a - 1) : DateOf(lookups[b].time) # calls[k].date
                  /\ calls[k].lat = lookups[a].lat
                  /\ calls[k].lon = lookups[a].lon
        /\ \A n \in 1..Len(samples) :
              \E k \in 1..Len(calls) :
                  /\ calls[k].date = DateOf(samples[n].time)
                  /\ samples[n].attenuation = 100 - fetch_cloud_cover(responses[k])

C9_Witness ==
    /\ Enabled
    /\ pc = "done"
    /\ \E k \in 1..Len(calls), a, b \in 1..Len(samples) :
          /\ lookups[a].fetched /\ lookups[a].index > 0
          /\ calls[k].date = samples[a].date
          /\ a < b
          /\ samples[b].date = samples[a].date
          /\ samples[b].lon # samples[a].lon
          /\ ~samples[a].kept
          /\ samples[b].attenuation = 60

(* C10: segment k of duration d_k yields n_k = max(2, floor(d_k / 600))     *)
(* samples at T_k + j x 10 minutes, j = 0..n_k-1, with T_1 the start        *)
(* timestamp and T_(k+1) = T_k + d_k; a route of 2 identical waypoints      *)
(* yields exactly 2 samples, at the start and 10 minutes later, and the run *)
(* completes without error.                                                 *)
C10_ScheduleFollowed ==
    /\ IsPrefix(Processed, ScheduleFrom(1))
    /\ pc = "done" => Processed = ScheduleFrom(1)
    /\ (pc = "segment" /\ i < SegmentCount) => current_time = ExpectedStart(i + 1)

C10_SampleSchedule ==
    /\ C10_ScheduleFollowed
    /\ DegenerateRoute =>
          /\ pc # "raised"
          /\ pc = "done" =>
                 /\ Len(samples) = 2
                 /\ samples[1].time = strptime(start_date)
                 /\ samples[2].time = strptime(start_date) + 600

====
